---- MODULE Spec2Model ----
(***************************************************************************)
(* A model of fitme: Headers / Data (src/src/data.rs), the version 1       *)
(* equation resolver (src/src/expr/v1.rs) and fit (src/src/solve.rs).      *)
(*                                                                         *)
(* Text is a sequence of one-character strings, so that the character      *)
(* loops of data.rs can be followed.  An f64 is <<n, d, r, e>>:            *)
(* (n/d) * sqrt(r) * 10^e with d > 0 for a finite value, and d = 0 for NaN *)
(* (n = 0), +inf (n = 1) and -inf (n = -1).  Arithmetic is exact: rounding,*)
(* overflow and the sign of zero are not modelled.                         *)
(***************************************************************************)
EXTENDS Integers, Sequences, FiniteSets, TLC

VARIABLES
    expr,       \* formula text handed to Eq::parse (its token sequence)
    columns,    \* Headers handed to Eq::parse
    eq,         \* result of Eq::parse
    headers,    \* Headers handed to Data::new
    input,      \* rows handed to Data::new
    data,       \* result of Data::new
    target,     \* target column name handed to fit
    tgt,        \* Fitter.tgt: index of the target column
    pc,         \* position of the run: parse, data, fit, mpfit, summary, done
    params,     \* parameter vector owned by fit
    deviates,   \* residuals written by the last Fitter::eval
    nEval,      \* number of Fitter::eval calls made by the optimizer
    status,     \* what mpfit returned
    ret,        \* what fit returned
    qHdrs,      \* Headers of a lookup
    qStr,       \* string looked up
    qRes,       \* result of the lookup
    qPc,        \* position of the lookup
    sol,        \* what a call of Eq::solve on its own returned
    similar,    \* what the fuzzy search for a missing column name returned
    wtr,        \* what has been written to the writer handed to write_results
    stdout,     \* what has been written to the standard output
    output,     \* output format and statistics flag of the rendering
    debug,      \* App::debug
    stages      \* the stages carried out so far, in order

fitVars == <<expr, columns, eq, headers, input, data, target, tgt, pc, params,
             deviates, nEval, status, ret>>
strVars == <<qHdrs, qStr, qRes, qPc>>
auxVars == <<sol, similar, wtr, stdout, output, debug>>
vars == <<expr, columns, eq, headers, input, data, target, tgt, pc, params,
          deviates, nEval, status, ret, qHdrs, qStr, qRes, qPc,
          sol, similar, wtr, stdout, output, debug, stages>>

(***************************************************************************)
(* Bounds of the model.                                                    *)
(***************************************************************************)
MaxStrLen == 3
MaxRows == 4
MaxEvals == 2
MaxOperands == 3
MaxHdrs == 2
MaxSolveOperands == 2

RECURSIVE SeqsUpTo(_, _)
SeqsUpTo(S, n) ==
    IF n = 0 THEN {<<>>}
    ELSE LET shorter == SeqsUpTo(S, n - 1)
         IN  shorter \cup {Append(s, x) : s \in shorter, x \in S}

(***************************************************************************)
(* Characters and strings (data.rs).                                       *)
(***************************************************************************)
Upper == <<"A","B","C","D","E","F","G","H","I","J","K","L","M",
           "N","O","P","Q","R","S","T","U","V","W","X","Y","Z">>
Lower == <<"a","b","c","d","e","f","g","h","i","j","k","l","m",
           "n","o","p","q","r","s","t","u","v","w","x","y","z">>

\* char::is_whitespace
is_whitespace(c) == c \in {" ", "\t"}

\* char::to_ascii_lowercase
to_ascii_lowercase(c) ==
    IF \E i \in 1..Len(Upper) : Upper[i] = c
    THEN Lower[CHOOSE i \in 1..Len(Upper) : Upper[i] = c]
    ELSE c

\* char::eq_ignore_ascii_case
char_eq_ignore_ascii_case(a, b) == to_ascii_lowercase(a) = to_ascii_lowercase(b)

\* a.chars().filter(|x| !x.is_whitespace())
NonWsChars(s) == SelectSeq(s, LAMBDA c : ~is_whitespace(c))

\* the loop of str_eq_ignore_case_and_ws over the two filtered iterators
RECURSIVE StrEqLoop(_, _)
StrEqLoop(a, b) ==
    IF a = <<>> /\ b = <<>> THEN TRUE
    ELSE IF a = <<>> \/ b = <<>> THEN FALSE
    ELSE IF char_eq_ignore_ascii_case(Head(a), Head(b))
         THEN StrEqLoop(Tail(a), Tail(b))
         ELSE FALSE

StrEqPrefixBug(a, b) ==
    LET x == NonWsChars(a)
        y == NonWsChars(b)
        n == IF Len(x) < Len(y) THEN Len(x) ELSE Len(y)
    IN  \A i \in 1..n : char_eq_ignore_ascii_case(x[i], y[i])

str_eq_ignore_case_and_ws(a, b) == StrEqLoop(NonWsChars(a), NonWsChars(b))

\* Option<usize>: None is NoneIdx, Some(i) is the 0-based index i
NoneIdx == -1

\* Headers::find_match with the predicate of find_ignore_case_and_ws
find_ignore_case_and_ws(hdrs, s) ==
    LET hits == {i \in 1..Len(hdrs) : str_eq_ignore_case_and_ws(hdrs[i], s)}
    IN  IF hits = {} THEN NoneIdx
        ELSE (CHOOSE i \in hits : \A j \in hits : i <= j) - 1

\* str::trim, as used by Headers::from_iter
RECURSIVE TrimStart(_)
TrimStart(s) ==
    IF s # <<>> /\ is_whitespace(Head(s)) THEN TrimStart(Tail(s)) ELSE s

RECURSIVE TrimEnd(_)
TrimEnd(s) ==
    IF s # <<>> /\ is_whitespace(s[Len(s)])
    THEN TrimEnd(SubSeq(s, 1, Len(s) - 1)) ELSE s

Trim(s) == TrimEnd(TrimStart(s))

\* Headers::from_iter
HeadersFromIter(names) == [i \in 1..Len(names) |-> Trim(names[i])]

(***************************************************************************)
(* f64 values and arithmetic.                                              *)
(***************************************************************************)
Abs(n) == IF n < 0 THEN -n ELSE n

RECURSIVE Gcd(_, _)
Gcd(a, b) == IF b = 0 THEN a ELSE Gcd(b, a % b)

\* no value: evaluating it stops the model checker (an arithmetic case the
\* program never reaches)
Unreached == CHOOSE x \in {} : TRUE

NaN == <<0, 0, 1, 0>>
PInf == <<1, 0, 1, 0>>
NInf == << -1, 0, 1, 0>>

\* the finite value (n/d) * sqrt(r) * 10^e, d # 0, with n/d in lowest terms
Norm(n, d, r, e) ==
    IF n = 0 THEN <<0, 1, 1, 0>>
    ELSE LET g == Gcd(Abs(n), Abs(d))
             s == IF d < 0 THEN -1 ELSE 1
         IN  <<(s * n) \div g, Abs(d) \div g, r, e>>

Num(n) == Norm(n, 1, 1, 0)
Rat(n, d) == Norm(n, d, 1, 0)

\* f64::is_finite, f64::is_nan
is_finite(x) == x[2] # 0
is_nan(x) == x[2] = 0 /\ x[1] = 0
Sgn(x) == IF x[1] > 0 THEN 1 ELSE IF x[1] < 0 THEN -1 ELSE 0
InfOf(s) == IF s > 0 THEN PInf ELSE NInf

FNeg(x) == <<0 - x[1], x[2], x[3], x[4]>>

FAdd(a, b) ==
    IF is_nan(a) \/ is_nan(b) THEN NaN
    ELSE IF ~is_finite(a) THEN (IF ~is_finite(b) /\ Sgn(a) # Sgn(b) THEN NaN ELSE a)
    ELSE IF ~is_finite(b) THEN b
    ELSE IF Sgn(a) = 0 THEN b
    ELSE IF Sgn(b) = 0 THEN a
    ELSE IF a[3] = b[3] /\ a[4] = b[4]
         THEN Norm(a[1] * b[2] + b[1] * a[2], a[2] * b[2], a[3], a[4])
    ELSE Unreached

FSub(a, b) == FAdd(a, FNeg(b))

FMul(a, b) ==
    IF is_nan(a) \/ is_nan(b) THEN NaN
    ELSE IF ~is_finite(a) \/ ~is_finite(b)
         THEN (IF Sgn(a) = 0 \/ Sgn(b) = 0 THEN NaN ELSE InfOf(Sgn(a) * Sgn(b)))
    ELSE Norm(a[1] * b[1], a[2] * b[2], a[3] * b[3], a[4] + b[4])

FDiv(a, b) ==
    IF is_nan(a) \/ is_nan(b) THEN NaN
    ELSE IF ~is_finite(a)
         THEN (IF ~is_finite(b) THEN NaN
               ELSE InfOf(Sgn(a) * (IF Sgn(b) < 0 THEN -1 ELSE 1)))
    ELSE IF ~is_finite(b) THEN Num(0)
    ELSE IF Sgn(b) = 0 THEN (IF Sgn(a) = 0 THEN NaN ELSE InfOf(Sgn(a)))
    ELSE Norm(a[1] * b[2], a[2] * b[1] * b[3], a[3] * b[3], a[4] - b[4])

\* f64::sqrt
FSqrt(x) ==
    IF is_nan(x) \/ Sgn(x) < 0 THEN NaN
    ELSE IF ~is_finite(x) THEN PInf
    ELSE IF Sgn(x) = 0 THEN x
    ELSE IF x[3] = 1 /\ x[4] = 0 THEN Norm(1, x[2], x[1] * x[2], 0)
    ELSE Unreached

\* f64::powi(2)
powi2(x) == FMul(x, x)

\* f64::abs
FAbs(x) == <<Abs(x[1]), x[2], x[3], x[4]>>

\* Iterator::sum::<f64>() over a sequence
RECURSIVE FSum(_)
FSum(s) == IF s = <<>> THEN Num(0) ELSE FAdd(FSum(SubSeq(s, 1, Len(s) - 1)), s[Len(s)])

(***************************************************************************)
(* Formulas (meval tokens) and Eq::parse (expr/v1.rs).                     *)
(* A formula text is its token sequence in reading order; a Func token is  *)
(* the function name together with its opening parenthesis.                *)
(***************************************************************************)
Var(n) == [t |-> "Var", n |-> n, v |-> Num(0)]
Number(x) == [t |-> "Number", n |-> <<>>, v |-> x]
Binary(op) == [t |-> "Binary", n |-> <<op>>, v |-> Num(0)]
Func(n) == [t |-> "Func", n |-> n, v |-> Num(0)]
LParen == [t |-> "LParen", n |-> <<>>, v |-> Num(0)]
RParen == [t |-> "RParen", n |-> <<>>, v |-> Num(0)]

\* the state machine of the meval tokenizer: an operand is expected (lexpr)
\* or has just been read; depth counts the open parentheses
RECURSIVE TokensOk(_, _, _)
TokensOk(toks, lexpr, depth) ==
    IF toks = <<>> THEN ~lexpr /\ depth = 0
    ELSE LET k == Head(toks).t
         IN  IF lexpr
             THEN CASE k \in {"Var", "Number"} -> TokensOk(Tail(toks), FALSE, depth)
                    [] k \in {"LParen", "Func"} -> TokensOk(Tail(toks), TRUE, depth + 1)
                    [] OTHER -> FALSE
             ELSE CASE k = "Binary" -> TokensOk(Tail(toks), TRUE, depth)
                    [] k = "RParen" -> depth > 0 /\ TokensOk(Tail(toks), FALSE, depth - 1)
                    [] OTHER -> FALSE

Prec(tok) == IF tok.n \in {<<"*">>, <<"/">>} THEN 2 ELSE 1

\* pop the operators that bind at least as tightly as op (all left associative)
RECURSIVE PopOps(_, _, _)
PopOps(op, out, stack) ==
    IF stack # <<>> /\ Head(stack).t = "Binary" /\ Prec(op) <= Prec(Head(stack))
    THEN PopOps(op, Append(out, Head(stack)), Tail(stack))
    ELSE <<out, stack>>

\* pop up to the matching opening parenthesis; a Func is emitted after its argument
RECURSIVE PopParen(_, _)
PopParen(out, stack) ==
    IF Head(stack).t = "LParen" THEN <<out, Tail(stack)>>
    ELSE IF Head(stack).t = "Func" THEN <<Append(out, Head(stack)), Tail(stack)>>
    ELSE PopParen(Append(out, Head(stack)), Tail(stack))

\* meval's shunting yard: the token stream in reverse Polish order
RECURSIVE Shunt(_, _, _)
Shunt(toks, out, stack) ==
    IF toks = <<>> THEN out \o stack
    ELSE LET tok == Head(toks)
         IN  CASE tok.t \in {"Var", "Number"} -> Shunt(Tail(toks), Append(out, tok), stack)
               [] tok.t \in {"LParen", "Func"} -> Shunt(Tail(toks), out, <<tok>> \o stack)
               [] tok.t = "Binary" ->
                    LET p == PopOps(tok, out, stack)
                    IN  Shunt(Tail(toks), p[1], <<tok>> \o p[2])
               [] tok.t = "RParen" ->
                    LET p == PopParen(out, stack)
                    IN  Shunt(Tail(toks), p[1], p[2])

\* str::parse::<Expr>(): the reverse Polish tokens, or no Expr
ParseExpr(text) ==
    IF TokensOk(text, TRUE, 0)
    THEN [ok |-> TRUE, rpn |-> Shunt(text, <<>>, <<>>)]
    ELSE [ok |-> FALSE, rpn |-> <<>>]

\* ctx(): the constants and the functions the evaluation context defines
CtxVars == {<<"p","i">>, <<"e">>}
CtxFuncs == {<<"s","i","n">>, <<"c","o","s">>, <<"t","a","n">>, <<"l","n">>,
             <<"l","o","g">>, <<"s","q","r","t">>, <<"e","x","p">>, <<"a","b","s">>}
ctx_get_var(n) == n \in CtxVars

\* the loop with a function call taken for an identifier as well
RECURSIVE ClassifyCalls(_, _, _, _)
ClassifyCalls(rpn, cols, vs, ps) ==
    IF rpn = <<>> THEN <<vs, ps>>
    ELSE LET tok == Head(rpn)
             i == find_ignore_case_and_ws(cols, tok.n)
         IN  IF tok.t \notin {"Var", "Func"} \/ ctx_get_var(tok.n)
             THEN ClassifyCalls(Tail(rpn), cols, vs, ps)
             ELSE IF i # NoneIdx
                  THEN ClassifyCalls(Tail(rpn), cols, Append(vs, <<tok.n, i>>), ps)
                  ELSE ClassifyCalls(Tail(rpn), cols, vs, Append(ps, tok.n))

\* the loop of Eq::parse over func.iter(): <<vars, params>>
RECURSIVE Classify(_, _, _, _)
Classify(rpn, cols, vs, ps) ==
    IF rpn = <<>> THEN <<vs, ps>>
    ELSE LET tok == Head(rpn)
             i == find_ignore_case_and_ws(cols, tok.n)
         IN  IF tok.t # "Var" \/ ctx_get_var(tok.n)
             THEN Classify(Tail(rpn), cols, vs, ps)
             ELSE IF i # NoneIdx
                  THEN Classify(Tail(rpn), cols, Append(vs, <<tok.n, i>>), ps)
                  ELSE Classify(Tail(rpn), cols, vs, Append(ps, tok.n))

\* Eq::build_inputs
build_inputs(e) == e.params \o [j \in 1..Len(e.vars) |-> e.vars[j][1]]

\* Expr::bindn_with_context: binding fails when the expression names a
\* function or a variable that neither the inputs nor the context define
BindOk(rpn, names) ==
    \A k \in 1..Len(rpn) :
        /\ rpn[k].t = "Func" => rpn[k].n \in CtxFuncs
        /\ rpn[k].t = "Var" =>
              \/ \E j \in 1..Len(names) : names[j] = rpn[k].n
              \/ ctx_get_var(rpn[k].n)

NoEq == [state |-> "none", vars |-> <<>>, params |-> <<>>, expr |-> <<>>,
         estr |-> <<>>, err |-> "none"]

\* Eq::parse
EqParse(text, cols) ==
    LET func == ParseExpr(text)
        c == Classify(func.rpn, cols, <<>>, <<>>)
        x == [state |-> "ok", vars |-> c[1], params |-> c[2], expr |-> func.rpn,
              estr |-> text, err |-> "none"]
    IN  IF ~func.ok
        THEN [NoEq EXCEPT !.state = "err", !.err = "parsing failed", !.estr = text]
        ELSE IF ~BindOk(x.expr, build_inputs(x))
        THEN [NoEq EXCEPT !.state = "err", !.err = "in expr", !.estr = text]
        ELSE x

\* Equation::params_len, params, vars, expr
params_len(e) == Len(e.params)
ParamsOf(e) == e.params
VarsOf(e) == [j \in 1..Len(e.vars) |-> e.vars[j][1]]
ExprOf(e) == e.estr

(***************************************************************************)
(* Cells, Data and DataRow (data.rs).                                      *)
(***************************************************************************)
CellNum(x) == [t |-> "Num", x |-> x, s |-> <<>>]
CellTxt(s) == [t |-> "Txt", x |-> NaN, s |-> s]

\* impl From<f64> for Cell, impl From<&str> for Cell; a Cell is itself
CellFrom(raw) ==
    IF raw.t = "f64" THEN CellNum(raw.x)
    ELSE IF raw.t = "str" THEN CellTxt(raw.s)
    ELSE raw

NoData == [state |-> "none", cols |-> <<>>, rows |-> <<>>, row |-> NoneIdx]

\* the 1-based positions of the input rows whose length differs from the headers
BadRows(hdrs, rows) == {i \in 1..Len(rows) : Len(rows[i]) # Len(hdrs)}

DataNewNoCheck(hdrs, rows) ==
    [state |-> "ok", cols |-> hdrs,
     rows |-> [i \in 1..Len(rows) |-> [j \in 1..Len(rows[i]) |-> CellFrom(rows[i][j])]],
     row |-> NoneIdx]

\* Data::new: the rows are taken in order and the first one of the wrong
\* length ends construction with an error holding its enumerate() index
DataNew(hdrs, rows) ==
    LET bad == BadRows(hdrs, rows)
    IN  IF bad # {}
        THEN [NoData EXCEPT !.state = "err",
                            !.row = (CHOOSE i \in bad : \A j \in bad : i <= j) - 1]
        ELSE DataNewNoCheck(hdrs, rows)

\* Data::len
DataLen(d) == Len(d.rows)

\* Data::rows: row i carries idx = i - 1
DataRows(d) == [i \in 1..Len(d.rows) |-> [idx |-> i - 1, vals |-> d.rows[i]]]

\* DataRow::get_num: None outside the row, Ok(x) for a Num cell, and for a
\* Txt cell an error with "in column index {colidx}" and "in row index {idx + 1}"
get_num(row, colidx) ==
    IF colidx < 0 \/ colidx >= Len(row.vals)
    THEN [some |-> FALSE, ok |-> FALSE, x |-> NaN, row |-> NoneIdx, col |-> NoneIdx]
    ELSE LET c == row.vals[colidx + 1]
         IN  IF c.t = "Num"
             THEN [some |-> TRUE, ok |-> TRUE, x |-> c.x, row |-> NoneIdx, col |-> NoneIdx]
             ELSE [some |-> TRUE, ok |-> FALSE, x |-> NaN, row |-> row.idx + 1,
                   col |-> colidx]

(***************************************************************************)
(* Eq::solve (expr/v1.rs).                                                 *)
(***************************************************************************)
None64 == [some |-> FALSE, x |-> NaN]
Some64(x) == [some |-> TRUE, x |-> x]

Min(S) == CHOOSE i \in S : \A j \in S : i <= j

\* the value the bound closure finds for a name: names are zipped with the
\* inputs and the first pair with that name is taken
Lookup(n, names, inputs) ==
    LET m == IF Len(names) < Len(inputs) THEN Len(names) ELSE Len(inputs)
        hits == {j \in 1..m : names[j] = n}
    IN  IF hits = {} THEN Unreached ELSE inputs[Min(hits)]

ApplyBinary(op, a, b) ==
    CASE op = <<"+">> -> FAdd(a, b)
      [] op = <<"-">> -> FSub(a, b)
      [] op = <<"*">> -> FMul(a, b)
      [] op = <<"/">> -> FDiv(a, b)

ApplyFunc(n, x) == IF n = <<"a","b","s">> THEN FAbs(x) ELSE Unreached

\* evaluation of the reverse Polish tokens on a stack (top is the head)
RECURSIVE EvalRpn(_, _, _, _)
EvalRpn(rpn, names, inputs, stack) ==
    IF rpn = <<>> THEN Head(stack)
    ELSE LET tok == Head(rpn)
         IN  CASE tok.t = "Number" -> EvalRpn(Tail(rpn), names, inputs, <<tok.v>> \o stack)
               [] tok.t = "Var" ->
                    EvalRpn(Tail(rpn), names, inputs,
                            <<Lookup(tok.n, names, inputs)>> \o stack)
               [] tok.t = "Binary" ->
                    EvalRpn(Tail(rpn), names, inputs,
                            <<ApplyBinary(tok.n, stack[2], stack[1])>> \o Tail(Tail(stack)))
               [] tok.t = "Func" ->
                    EvalRpn(Tail(rpn), names, inputs,
                            <<ApplyFunc(tok.n, stack[1])>> \o Tail(stack))

\* Eq::solve: None when binding fails or a bound column's cell is missing or Txt
solve(e, ps, row) ==
    LET names == build_inputs(e)
        cells == [j \in 1..Len(e.vars) |-> get_num(row, e.vars[j][2])]
    IN  IF ~BindOk(e.expr, names) THEN None64
        ELSE IF \E j \in 1..Len(cells) : ~cells[j].some \/ ~cells[j].ok THEN None64
        ELSE Some64(EvalRpn(e.expr, names, ps \o [j \in 1..Len(cells) |-> cells[j].x], <<>>))

(***************************************************************************)
(* fit (solve.rs).                                                         *)
(***************************************************************************)
NoFit == [parameter_names |-> <<>>, parameter_values |-> <<>>, n |-> 0,
          xerrs |-> <<>>, rmsr |-> NaN, rsq |-> NaN, tvals |-> <<>>]
\* the help text of an error: a fixed head and the text pushed after it
NoHelp == [head |-> "none", pushed |-> <<>>]
NoRet == [state |-> "none", kind |-> "none", row |-> NoneIdx, col |-> NoneIdx,
          estr |-> <<>>, fit |-> NoFit, help |-> NoHelp]
Unit == [NoRet EXCEPT !.state = "ok", !.kind = "unit"]
Err(kind, row, col, estr) ==
    [NoRet EXCEPT !.state = "err", !.kind = kind, !.row = row, !.col = col,
                  !.estr = estr]
OkFit(f) == [NoRet EXCEPT !.state = "ok", !.kind = "fit", !.fit = f]

\* Headers::fuzzy_match: the headers the search found, without whitespace;
\* found is what SimSearch::search returned, the ids best match first
fuzzy_match(hdrs, found) ==
    [k \in 1..Len(found) |-> NonWsChars(hdrs[found[k] + 1])]

\* the loop of match_hdr_help: a space and the header, for each header
RECURSIVE PushAll(_)
PushAll(hs) ==
    IF hs = <<>> THEN <<>> ELSE <<" ">> \o Head(hs) \o PushAll(Tail(hs))

SimilarHeaders == "help - these headers are similar:"
\* (the hint goes on to name a command that shows the headers)
NoColumnsMatch == "help - no columns match"

\* the help that keeps its first head when nothing was pushed
MatchHdrHelpNoHint(hdrs, col, found) ==
    [head |-> SimilarHeaders, pushed |-> PushAll(fuzzy_match(hdrs, found))]

\* match_hdr_help
match_hdr_help(hdrs, col, found) ==
    LET s == PushAll(fuzzy_match(hdrs, found))
    IN  IF Len(s) = 0 THEN [head |-> NoColumnsMatch, pushed |-> <<>>]
        ELSE [head |-> SimilarHeaders, pushed |-> s]

\* chk_col of ensure_float_values_in_data: the first row whose cell in
\* column c is missing or Txt ends the check with that cell's error
chk_col(d, c) ==
    LET rows == DataRows(d)
        bad == {i \in 1..Len(rows) :
                   LET g == get_num(rows[i], c) IN ~g.some \/ ~g.ok}
    IN  IF bad = {} THEN Unit
        ELSE LET g == get_num(rows[Min(bad)], c)
             IN  IF ~g.some THEN Err("column index not in table", NoneIdx, c, <<>>)
                 ELSE Err("failed to parse as number", g.row, g.col, <<>>)

\* the variables checked from the last to the first
RECURSIVE ChkVarsReversed(_, _)
ChkVarsReversed(names, d) ==
    IF names = <<>> THEN Unit
    ELSE LET c == find_ignore_case_and_ws(d.cols, names[Len(names)])
         IN  IF c = NoneIdx
             THEN Err("could not find column", NoneIdx, NoneIdx, names[Len(names)])
             ELSE LET r == chk_col(d, c)
                  IN  IF r.state = "err" THEN r
                      ELSE ChkVarsReversed(SubSeq(names, 1, Len(names) - 1), d)

\* the loop of ensure_float_values_in_data over eq.vars()
RECURSIVE ChkVars(_, _)
ChkVars(names, d) ==
    IF names = <<>> THEN Unit
    ELSE LET c == find_ignore_case_and_ws(d.cols, Head(names))
         IN  IF c = NoneIdx
             THEN Err("could not find column", NoneIdx, NoneIdx, Head(names))
             ELSE LET r == chk_col(d, c)
                  IN  IF r.state = "err" THEN r ELSE ChkVars(Tail(names), d)

EnsureTargetOnly(e, d, t) == chk_col(d, t)

ensure_float_values_in_data(e, d, t) ==
    LET r == chk_col(d, t)
    IN  IF r.state = "err" THEN r ELSE ChkVars(VarsOf(e), d)

\* the probe vectors with the all-ones vector tried first
GuessOnesFirst(k) ==
    << [i \in 1..k |-> Num(1)], [i \in 1..k |-> Num(0)],
       [i \in 1..k |-> Rat(1, 2)], [i \in 1..k |-> Num(i - 1)] >>

\* the probe vectors of guess_params, in the order they are tried
GuessCandidates(k) ==
    << [i \in 1..k |-> Num(0)], [i \in 1..k |-> Num(1)],
       [i \in 1..k |-> Rat(1, 2)], [i \in 1..k |-> Num(i - 1)] >>

\* guess_params: None without a first row or when no probe is finite on it
guess_params(d, e) ==
    IF DataLen(d) = 0 THEN [some |-> FALSE, v |-> <<>>]
    ELSE LET r == DataRows(d)[1]
             cands == GuessCandidates(params_len(e))
             good == {c \in 1..Len(cands) :
                        LET s == solve(e, cands[c], r) IN s.some /\ is_finite(s.x)}
         IN  IF good = {} THEN [some |-> FALSE, v |-> <<>>]
             ELSE [some |-> TRUE, v |-> cands[Min(good)]]

\* vec![0.1; eq.params_len()]
DefaultParams(e) == [i \in 1..params_len(e) |-> Rat(1, 10)]

\* fit up to the construction of the optimizer config: the error fit returns
\* there, or Unit with the target index and the starting parameters
FitPrologueNoZeroCheck(e, d, t) ==
    LET c == find_ignore_case_and_ws(d.cols, t)
        r == ensure_float_values_in_data(e, d, c)
        g == guess_params(d, e)
        ps == IF g.some THEN g.v ELSE DefaultParams(e)
    IN  IF c = NoneIdx
        THEN [ret |-> Err("could not find column", NoneIdx, NoneIdx, t),
              tgt |-> NoneIdx, params |-> <<>>]
        ELSE IF r.state = "err" THEN [ret |-> r, tgt |-> c, params |-> <<>>]
        ELSE [ret |-> Unit, tgt |-> c, params |-> ps]

FitPrologue(e, d, t) ==
    LET c == find_ignore_case_and_ws(d.cols, t)
        r == ensure_float_values_in_data(e, d, c)
        g == guess_params(d, e)
        ps == IF g.some THEN g.v ELSE DefaultParams(e)
    IN  IF c = NoneIdx
        THEN [ret |-> Err("could not find column", NoneIdx, NoneIdx, t),
              tgt |-> NoneIdx, params |-> <<>>]
        ELSE IF r.state = "err" THEN [ret |-> r, tgt |-> c, params |-> <<>>]
        ELSE IF ps = <<>>
        THEN [ret |-> Err("equation has 0 parameters to fit", NoneIdx, NoneIdx, ExprOf(e)),
              tgt |-> c, params |-> ps]
        ELSE [ret |-> Unit, tgt |-> c, params |-> ps]

\* `*d = 1e13; // very large deviation`
LargeDeviationExp == 13
LargeDeviation == <<1, 1, 1, LargeDeviationExp>>

\* the residuals with a value that is not finite passed on as it is
FitterEvalPropagate(e, d, t, ps) ==
    LET rows == DataRows(d)
        f == [i \in 1..Len(rows) |-> solve(e, ps, rows[i])]
        y == [i \in 1..Len(rows) |-> get_num(rows[i], t)]
    IN  IF \E i \in 1..Len(rows) : ~f[i].some THEN [res |-> "Eval", deviates |-> <<>>]
        ELSE [res |-> "ok",
              deviates |-> [i \in 1..Len(rows) |-> FSub(y[i].x, f[i].x)]]

\* Fitter::eval: the rows are taken in order; a row solve cannot evaluate
\* ends it with MPError::Eval, a finite value on a row whose target cell is
\* no number panics
FitterEval(e, d, t, ps) ==
    LET rows == DataRows(d)
        f == [i \in 1..Len(rows) |-> solve(e, ps, rows[i])]
        y == [i \in 1..Len(rows) |-> get_num(rows[i], t)]
        noval == {i \in 1..Len(rows) : ~f[i].some}
        panics == {i \in 1..Len(rows) :
                      f[i].some /\ is_finite(f[i].x) /\ (~y[i].some \/ ~y[i].ok)}
        stop == noval \cup panics
        dev == [i \in 1..Len(rows) |->
                   IF is_finite(f[i].x) THEN FSub(y[i].x, f[i].x) ELSE LargeDeviation]
    IN  IF stop = {} THEN [res |-> "ok", deviates |-> dev]
        ELSE IF Min(stop) \in noval THEN [res |-> "Eval", deviates |-> <<>>]
        ELSE [res |-> "panic", deviates |-> <<>>]

NoStatus == [res |-> "none", success |-> "none", xerror |-> <<>>]

TValsSwapped(ps, xerrs) ==
    LET m == IF Len(ps) < Len(xerrs) THEN Len(ps) ELSE Len(xerrs)
    IN  [i \in 1..m |-> FDiv(ps[i], xerrs[m + 1 - i])]

\* params.iter().zip(&xerrs).map(|(co, er)| co / er)
TVals(ps, xerrs) ==
    LET m == IF Len(ps) < Len(xerrs) THEN Len(ps) ELSE Len(xerrs)
    IN  [i \in 1..m |-> FDiv(ps[i], xerrs[i])]

\* fit after mpfit has returned Ok(status): the statistics and the Fit
Summary(e, d, t, ps, st) ==
    LET rows == DataRows(d)
        n == Num(DataLen(d))
        k == Num(Len(ps))
        one == Num(1)
        y == [i \in 1..Len(rows) |-> get_num(rows[i], t)]
        y_pred == [i \in 1..Len(rows) |-> solve(e, ps, rows[i])]
        mean_y == FDiv(FSum([i \in 1..Len(rows) |-> y[i].x]), n)
        dfr == FSub(FSub(n, k), one)
        ssr == FSum([i \in 1..Len(rows) |-> powi2(FSub(y[i].x, y_pred[i].x))])
        sse == FSum([i \in 1..Len(rows) |-> powi2(FSub(y_pred[i].x, mean_y))])
        rmsr == FSqrt(FDiv(ssr, dfr))
        sst == FAdd(sse, ssr)
        rsq0 == FSub(one, FDiv(ssr, sst))
        rsq == FSub(one, FDiv(FMul(FSub(one, rsq0), FSub(n, one)), dfr))
        xerrs == [i \in 1..Len(st.xerror) |-> FMul(st.xerror[i], rmsr)]
        tvals == TVals(ps, xerrs)
    IN  IF \E i \in 1..Len(rows) : ~y[i].some \/ ~y[i].ok
        THEN [NoRet EXCEPT !.state = "panic", !.kind = "is number"]
        ELSE IF \E i \in 1..Len(rows) : ~y_pred[i].some
        THEN Err("failed to solve equation when summarising", NoneIdx, NoneIdx, <<>>)
        ELSE OkFit([parameter_names |-> ParamsOf(e), parameter_values |-> ps,
                    n |-> DataLen(d), xerrs |-> xerrs, rmsr |-> rmsr, rsq |-> rsq,
                    tvals |-> tvals])

(***************************************************************************)
(* The inputs of a run.                                                    *)
(***************************************************************************)
F64(n) == [t |-> "f64", x |-> Num(n), s |-> <<>>]
Str(s) == [t |-> "str", x |-> NaN, s |-> s]

Formulas ==
    { \* m * x + c
      <<Var(<<"m">>), Binary("*"), Var(<<"x">>), Binary("+"), Var(<<"c">>)>>,
      \* x * x + d + d
      <<Var(<<"x">>), Binary("*"), Var(<<"x">>), Binary("+"), Var(<<"d">>),
        Binary("+"), Var(<<"d">>)>>,
      \* 2 * x
      <<Number(Num(2)), Binary("*"), Var(<<"x">>)>>,
      \* c / x
      <<Var(<<"c">>), Binary("/"), Var(<<"x">>)>>,
      \* abs(x - b)
      <<Func(<<"a","b","s">>), Var(<<"x">>), Binary("-"), Var(<<"b">>), RParen>>,
      \* foo(x)
      <<Func(<<"f","o","o">>), Var(<<"x">>), RParen>>,
      \* 3 * 2x +
      <<Number(Num(3)), Binary("*"), Number(Num(2)), Var(<<"x">>), Binary("+")>> }

HeaderNames == { << <<"y">>, <<"x", " ">> >> }
OtherHeaders == { HeadersFromIter(<< <<"x">>, <<"y">> >>),
                  HeadersFromIter(<< <<"d">>, <<" ", "Y">> >>) }
Targets == { <<"y">>, <<"z">> }
Bar == <<"b","a","r">>
RowPool == { <<F64(1), F64(1)>>, <<F64(3), F64(0)>>, <<F64(2), Str(Bar)>>,
             <<F64(1)>> }

\* the parameter vectors the optimizer tries after the starting point
Trials(k) == { [i \in 1..k |-> Num(i)], [i \in 1..k |-> Num(2)] }
\* the termination reasons and standard errors mpfit reports with Ok
MPSuccess == {"Both", "MaxIter"}
XErrors(k) == { [i \in 1..k |-> Num(0)], [i \in 1..k |-> Num(i)] }

StrIdle == qHdrs = <<>> /\ qStr = <<>> /\ qRes = NoneIdx /\ qPc = "off"

FitIdle ==
    /\ expr = <<>> /\ columns = <<>> /\ headers = <<>> /\ input = <<>>
    /\ target = <<>>
    /\ eq = NoEq /\ data = NoData /\ tgt = NoneIdx /\ params = <<>>
    /\ deviates = <<>> /\ nEval = 0 /\ status = NoStatus /\ ret = NoRet

NoOut == [format |-> "none", stats |-> FALSE]

AuxIdle ==
    /\ sol = None64 /\ similar = <<>> /\ wtr = <<>> /\ stdout = <<>> /\ output = NoOut
    /\ debug = FALSE /\ stages = <<>>

\* nothing has been parsed, built or fitted yet
Init == pc = "parse" /\ FitIdle /\ StrIdle /\ AuxIdle

\* the inputs of Eq::parse alone: every formula of up to MaxOperands operands
Operands == { Var(<<"x">>), Var(<<"X">>), Var(<<"d">>), Var(<<"c">>), Number(Num(2)) }
Operators == { Binary("+"), Binary("*") }

RECURSIVE Chains(_)
Chains(n) ==
    IF n = 1 THEN {<<o>> : o \in Operands}
    ELSE LET shorter == Chains(n - 1)
         IN  shorter \cup {f \o <<b, o>> : f \in shorter, b \in Operators, o \in Operands}

ParseColumns == { << <<"d">> >>, << <<"y">>, <<"x">> >>, << <<"D">>, <<"y">> >>,
                  << <<"d">>, <<"X">>, <<"x">> >>,
                  << <<"a","b","s">>, <<"x">>, <<"L","o","g">> >> }

\* calls of the functions of the context: f(x), f(x) + g(d), and abs(x) + abs
FuncCalls ==
    {<<Func(f), Var(<<"x">>), RParen>> : f \in CtxFuncs}
    \cup {<<Func(f), Var(<<"x">>), RParen, Binary("+"), Func(g), Var(<<"d">>), RParen>> :
             f \in {<<"a","b","s">>, <<"l","o","g">>}, g \in CtxFuncs}
    \cup {<<Func(<<"a","b","s">>), Var(<<"x">>), RParen, Binary("+"), Var(<<"a","b","s">>)>>}

\* the inputs of a header lookup
Chars == {"a", "A", "b", " ", "\t"}
LookupHeaders == { <<"a", " ", "B">>, <<"A", "b">>, <<"a">>, <<"b", "\t", "a", " ">>,
                   <<"B">>, <<>> }

InitFind == pc = "off" /\ FitIdle /\ qHdrs = <<>> /\ qStr = <<>> /\ qRes = NoneIdx
            /\ qPc = "find" /\ AuxIdle

(***************************************************************************)
(* The steps of a run: Eq::parse, Data::new, fit.                          *)
(***************************************************************************)
Parse(text, cols) ==
    /\ pc = "parse"
    /\ stages' = Append(stages, "parse")
    /\ expr' = text
    /\ columns' = cols
    /\ eq' = EqParse(text, cols)
    /\ pc' = IF eq'.state = "ok" THEN "data" ELSE "done"
    /\ UNCHANGED <<headers, input, data, target, tgt, params,
                   deviates, nEval, status, ret, strVars, auxVars>>

DataNewStep(hdrs, rows) ==
    /\ pc = "data"
    /\ stages' = Append(stages, "load")
    /\ headers' = hdrs
    /\ input' = rows
    /\ data' = DataNew(hdrs, rows)
    /\ pc' = IF data'.state = "ok" THEN "fit" ELSE "done"
    /\ UNCHANGED <<expr, columns, eq, target, tgt, params,
                   deviates, nEval, status, ret, strVars, auxVars>>

\* what SimSearch::search can return over the headers: ids, each at most once
Searches(hdrs) ==
    {f \in SeqsUpTo(0..(Len(hdrs) - 1), Len(hdrs)) :
        \A i, j \in 1..Len(f) : i # j => f[i] # f[j]}

\* fit, lines 117-140, with the help of lines 121 and 269
FitStart(t, found) ==
    /\ pc = "fit"
    /\ stages' = Append(stages, "fit")
    /\ target' = t
    /\ LET r == FitPrologue(eq, data, t)
           missing == r.ret.kind = "could not find column"
       IN  /\ found \in (IF missing THEN Searches(data.cols) ELSE {<<>>})
           /\ similar' = found
           /\ tgt' = r.tgt
           /\ params' = r.params
           /\ ret' = IF missing
                     THEN [r.ret EXCEPT
                              !.help = match_hdr_help(data.cols, r.ret.estr, found)]
                     ELSE IF r.ret.state = "err" THEN r.ret ELSE ret
           /\ pc' = IF r.ret.state = "err" THEN "done" ELSE "mpfit"
    /\ UNCHANGED <<expr, columns, eq, headers, input, data,
                   deviates, nEval, status, strVars, sol, wtr, stdout, output, debug>>

FitFailed == Err("failed to fit the equation to the input data", NoneIdx, NoneIdx, <<>>)

\* mpfit refuses fewer points than free parameters before it evaluates
MpfitReject ==
    /\ pc = "mpfit" /\ nEval = 0
    /\ DataLen(data) < Len(params)
    /\ status' = [NoStatus EXCEPT !.res = "err",
                     !.success = IF DataLen(data) = 0 THEN "Empty" ELSE "DoF"]
    /\ ret' = FitFailed
    /\ pc' = "done"
    /\ UNCHANGED <<expr, columns, eq, headers, input, data, target, tgt, params,
                   deviates, nEval, strVars, auxVars, stages>>

\* one call of Fitter::eval by the optimizer, at the starting point first
FitterEvalStep(p) ==
    /\ pc = "mpfit" /\ nEval < MaxEvals
    /\ DataLen(data) >= Len(params)
    /\ p \in (IF nEval = 0 THEN {params} ELSE Trials(Len(params)))
    /\ LET r == FitterEval(eq, data, tgt, p)
       IN  /\ nEval' = nEval + 1
           /\ params' = p
           /\ deviates' = r.deviates
           /\ status' = IF r.res = "Eval"
                        THEN [NoStatus EXCEPT !.res = "err", !.success = "Eval"]
                        ELSE status
           /\ ret' = CASE r.res = "ok" -> ret
                       [] r.res = "Eval" -> FitFailed
                       [] r.res = "panic" -> [NoRet EXCEPT !.state = "panic",
                                                           !.kind = "is number"]
           /\ pc' = IF r.res = "ok" THEN "mpfit" ELSE "done"
    /\ UNCHANGED <<expr, columns, eq, headers, input, data, target, tgt, strVars, auxVars, stages>>

\* mpfit returns Ok(status); fit reads status.xerror only
MpfitReturn(success, xerror) ==
    /\ pc = "mpfit" /\ nEval >= 1
    /\ status' = [res |-> "ok", success |-> success, xerror |-> xerror]
    /\ pc' = "summary"
    /\ UNCHANGED <<expr, columns, eq, headers, input, data, target, tgt, params,
                   deviates, nEval, ret, strVars, auxVars, stages>>

\* fit, lines 152-226
Summarise ==
    /\ pc = "summary"
    /\ ret' = Summary(eq, data, tgt, params, status)
    /\ pc' = "done"
    /\ UNCHANGED <<expr, columns, eq, headers, input, data, target, tgt, params,
                   deviates, nEval, status, strVars, auxVars, stages>>

Next ==
    \/ pc = "parse" /\ \E text \in Formulas, h \in HeaderNames :
                          Parse(text, HeadersFromIter(h))
    \/ pc = "data" /\ \E hdrs \in {columns} \cup OtherHeaders,
                         rows \in SeqsUpTo(RowPool, MaxRows) : DataNewStep(hdrs, rows)
    \/ pc = "fit" /\ \E t \in Targets, found \in Searches(data.cols) \cup {<<>>} :
                        FitStart(t, found)
    \/ MpfitReject
    \/ pc = "mpfit" /\ \E p \in Trials(Len(params)) \cup {params} : FitterEvalStep(p)
    \/ pc = "mpfit" /\ \E s \in MPSuccess, x \in XErrors(Len(params)) : MpfitReturn(s, x)
    \/ Summarise

Spec == Init /\ [][Next]_vars

\* Eq::parse on its own
NextParse ==
    /\ pc = "parse"
    /\ \E text \in Chains(MaxOperands) \cup Formulas \cup FuncCalls, h \in ParseColumns :
          Parse(text, HeadersFromIter(h))

SpecParse == Init /\ [][NextParse]_vars

\* Headers::find_ignore_case_and_ws
Find(hdrs, s) ==
    /\ qPc = "find"
    /\ qHdrs' = hdrs
    /\ qStr' = s
    /\ qRes' = find_ignore_case_and_ws(hdrs, s)
    /\ qPc' = "done"
    /\ UNCHANGED <<fitVars, auxVars, stages>>

NextFind ==
    /\ qPc = "find"
    /\ \E h \in SeqsUpTo(LookupHeaders, MaxHdrs), s \in SeqsUpTo(Chars, MaxStrLen) :
          Find(HeadersFromIter(h), s)

SpecFind == InitFind /\ [][NextFind]_vars

(***************************************************************************)
(* Rendering of a Fit (solve.rs, lib.rs).  What is written is a sequence   *)
(* of pieces; a number is written through numfmt ("fmt2"), to_string or     *)
(* serde_json, which the piece names.                                      *)
(***************************************************************************)
Outputs == {"Table", "Plain", "Csv", "Md", "Json"}


\* parameter_names.iter().zip(parameter_values).zip(xerrs).zip(tvals)
ZipRows(x, fmt) ==
    LET k == Min({Len(x.parameter_names), Len(x.parameter_values),
                  Len(x.xerrs), Len(x.tvals)})
    IN  [i \in 1..k |-> [piece |-> "row", fmt |-> fmt, name |-> x.parameter_names[i],
                         cells |-> <<x.parameter_values[i], x.xerrs[i], x.tvals[i]>>]]

\* the three lines written when write_stats holds
StatsLines(x, write_stats) ==
    IF write_stats
    THEN << [piece |-> "Number of observations", fmt |-> "fmt2", name |-> <<>>,
             cells |-> <<Num(x.n)>>],
            [piece |-> "Root Mean Squared Residual error", fmt |-> "fmt2", name |-> <<>>,
             cells |-> <<x.rmsr>>],
            [piece |-> "R-sq Adjusted", fmt |-> "fmt2", name |-> <<>>,
             cells |-> <<x.rsq>>] >>
    ELSE <<>>

HeaderPiece(preset) ==
    [piece |-> "header", fmt |-> preset, name |-> <<>>, cells |-> <<>>]

\* write_table: the pieces it writes to w
write_table(x, write_stats, table_fmt) ==
    <<HeaderPiece(table_fmt)>> \o ZipRows(x, "fmt2") \o StatsLines(x, write_stats)

\* write_csv_table: the pieces it writes to wtr
write_csv_table(x, write_stats) ==
    <<HeaderPiece("csv")>> \o ZipRows(x, "to_string") \o StatsLines(x, write_stats)

\* write_json_table: the piece serde_json writes
write_json_table(x) ==
    << [piece |-> "json", fmt |-> "serde_json", name |-> x.parameter_names,
        cells |-> x.parameter_values \o <<Num(x.n)>> \o x.xerrs
                    \o <<x.rmsr, x.rsq>> \o x.tvals] >>

\* Fit::write_results: what the writer w and the standard output so hold
\* after the call
write_results(x, fmt, write_statistics, w, so) ==
    CASE fmt = "Table" ->
            [wtr |-> w \o write_table(x, write_statistics, "UTF8_HORIZONTAL_ONLY"),
             stdout |-> so]
      [] fmt = "Plain" ->
            [wtr |-> w \o write_table(x, write_statistics, "NOTHING"), stdout |-> so]
      [] fmt = "Csv" ->
            [wtr |-> w \o write_csv_table(x, write_statistics), stdout |-> so]
      [] fmt = "Md" ->
            [wtr |-> w \o write_table(x, write_statistics, "ASCII_MARKDOWN"),
             stdout |-> so]
      [] fmt = "Json" -> [wtr |-> w, stdout |-> so \o write_json_table(x)]

\* the Fits handed to write_results on its own: the fields are public
WriteNames == { <<"c">>, <<"m">> }
Fits ==
    { [parameter_names |-> ns,
       parameter_values |-> [i \in 1..Len(ns) |-> Num(i)],
       n |-> n,
       xerrs |-> [i \in 1..Len(ns) |-> Rat(1, 2)],
       rmsr |-> Num(1), rsq |-> rsq,
       tvals |-> [i \in 1..Len(ns) |-> Num(2 * i)]] :
         ns \in SeqsUpTo(WriteNames, MaxHdrs), n \in 0..MaxRows, rsq \in {Num(1), NaN} }

InitWrite == pc = "write" /\ FitIdle /\ StrIdle /\ AuxIdle

WriteResults(x, fmt, write_statistics) ==
    /\ pc = "write"
    /\ ret' = OkFit(x)
    /\ output' = [format |-> fmt, stats |-> write_statistics]
    /\ LET r == write_results(x, fmt, write_statistics, wtr, stdout)
       IN  wtr' = r.wtr /\ stdout' = r.stdout
    /\ pc' = "written"
    /\ UNCHANGED <<expr, columns, eq, headers, input, data, target, tgt, params,
                   deviates, nEval, status, strVars, sol, similar, debug, stages>>

NextWrite ==
    /\ pc = "write"
    /\ \E x \in Fits, fmt \in Outputs, write_statistics \in BOOLEAN :
          WriteResults(x, fmt, write_statistics)

SpecWrite == InitWrite /\ [][NextWrite]_vars

\* the start of fit on its own, up to the starting parameter vector, with
\* formulas that are finite for some probe vectors only
GuessFormulas ==
    { \* x / c
      <<Var(<<"x">>), Binary("/"), Var(<<"c">>)>>,
      \* x / (a - b)
      <<Var(<<"x">>), Binary("/"), LParen, Var(<<"a">>), Binary("-"), Var(<<"b">>), RParen>>,
      \* x / (c * (c - 1))
      <<Var(<<"x">>), Binary("/"), LParen, Var(<<"c">>), Binary("*"), LParen,
        Var(<<"c">>), Binary("-"), Number(Num(1)), RParen, RParen>> }

NextGuess ==
    \/ pc = "parse" /\ \E text \in Formulas \cup GuessFormulas, h \in HeaderNames :
                          Parse(text, HeadersFromIter(h))
    \/ pc = "data" /\ \E hdrs \in {columns} \cup OtherHeaders,
                         rows \in SeqsUpTo(RowPool, MaxRows) : DataNewStep(hdrs, rows)
    \/ pc = "fit" /\ \E t \in Targets, found \in Searches(data.cols) \cup {<<>>} :
                        FitStart(t, found)

SpecGuess == Init /\ [][NextGuess]_vars

(***************************************************************************)
(* The command line run (lib.rs): read the headers, parse the formula,     *)
(* load the rows, fit, render; or, with --debug, print and stop.           *)
(***************************************************************************)
Digits == <<"0", "1", "2", "3", "4", "5", "6", "7", "8", "9">>
IsDigit(c) == \E k \in 1..10 : Digits[k] = c
DigitValue(c) == (CHOOSE k \in 1..10 : Digits[k] = c) - 1

RECURSIVE Decimal(_)
Decimal(ds) ==
    IF ds = <<>> THEN 0 ELSE 10 * Decimal(SubSeq(ds, 1, Len(ds) - 1)) + DigitValue(ds[Len(ds)])

\* str::parse::<f64>() on the texts of the model: decimal integers with an
\* optional sign, inf and NaN parse; any other text of the model does not
ParseF64(text) ==
    LET neg == text # <<>> /\ Head(text) = "-"
        ds == IF neg THEN Tail(text) ELSE text
    IN  IF ds = <<"N", "a", "N">> THEN Some64(NaN)
        ELSE IF ds = <<"i", "n", "f">> THEN Some64(IF neg THEN NInf ELSE PInf)
        ELSE IF ds # <<>> /\ \A k \in 1..Len(ds) : IsDigit(ds[k])
        THEN Some64(IF neg THEN FNeg(Num(Decimal(ds))) ELSE Num(Decimal(ds)))
        ELSE None64

\* the closure of Data::try_from over the cells of a record
CsvCell(text) ==
    LET x == ParseF64(text) IN IF x.some THEN CellNum(x.x) ELSE CellTxt(text)

\* the records of the CSV file after the header row
CsvRecords ==
    { << <<"1">>, <<"1">> >>, << <<"3">>, <<"0">> >>, << <<"2">>, Bar >>, << <<"1">> >> }

\* the header rows of the CSV file; the empty one has no field
CsvHeaders == HeaderNames \cup {<<>>}

InitRun ==
    /\ pc = "headers" /\ FitIdle /\ StrIdle
    /\ sol = None64 /\ similar = <<>> /\ wtr = <<>> /\ stdout = <<>> /\ output = NoOut
    /\ debug \in BOOLEAN /\ stages = <<>>

\* CsvReader::headers, line 129 of run
ReadHeaders(h) ==
    /\ pc = "headers"
    /\ stages' = Append(stages, "headers")
    /\ headers' = HeadersFromIter(h)
    /\ ret' = IF h = <<>> THEN Err("headers row is empty", NoneIdx, NoneIdx, <<>>) ELSE ret
    /\ pc' = IF h = <<>> THEN "done" ELSE "parse"
    /\ UNCHANGED <<expr, columns, eq, input, data, target, tgt, params, deviates, nEval,
                   status, strVars, auxVars>>

\* the pieces output_debug prints; the hint printed beside a parameter that
\* resembles a header is not among them
DebugPieces(e, t) ==
    << [piece |-> "Expression", fmt |-> "println", name |-> <<>>, cells |-> <<>>],
       [piece |-> "Parameters", fmt |-> "println", name |-> ParamsOf(e), cells |-> <<>>],
       [piece |-> "Variables", fmt |-> "println", name |-> VarsOf(e), cells |-> <<>>],
       [piece |-> "Target", fmt |-> "println", name |-> t, cells |-> <<>>] >>

\* output_debug, lines 132-134 of run
OutputDebug(t, found) ==
    /\ pc = "data" /\ debug
    /\ stages' = Append(stages, "debug")
    /\ target' = t
    /\ stdout' = stdout \o DebugPieces(eq, t)
    /\ LET missing == find_ignore_case_and_ws(headers, t) = NoneIdx
       IN  /\ found \in (IF missing THEN Searches(headers) ELSE {<<>>})
           /\ similar' = found
           /\ ret' = IF missing
                     THEN [Err("target column not found", NoneIdx, NoneIdx, t) EXCEPT
                              !.help = match_hdr_help(headers, t, found)]
                     ELSE Unit
    /\ pc' = "done"
    /\ UNCHANGED <<expr, columns, eq, headers, input, data, tgt, params, deviates, nEval,
                   status, strVars, sol, wtr, output, debug>>

\* the 1-based positions of the records whose length differs from the header row
Unequal(records) == {i \in 1..Len(records) : Len(records[i]) # Len(headers)}

\* the load that takes place whether or not --debug is given
CsvLoadAlways(records) ==
    /\ pc = "data"
    /\ stages' = Append(stages, "load")
    /\ LET bad == Unequal(records)
           read == IF bad = {} THEN records ELSE SubSeq(records, 1, Min(bad))
           rows == [i \in 1..Len(records) |->
                       [c \in 1..Len(records[i]) |-> CsvCell(records[i][c])]]
       IN  /\ input' = read
           /\ data' = IF bad = {} THEN DataNew(headers, rows) ELSE data
           /\ ret' = IF bad = {} THEN ret
                     ELSE Err("failed to read row in CSV", Min(bad), NoneIdx, <<>>)
           /\ pc' = IF bad = {} /\ data'.state = "ok" THEN "fit" ELSE "done"
    /\ UNCHANGED <<expr, columns, eq, headers, target, tgt, params, deviates, nEval,
                   status, strVars, auxVars>>

\* Data::try_from(rdr), line 136 of run: the reader refuses a record whose
\* length differs from the header row; the records up to it have been read
CsvLoad(records) ==
    /\ pc = "data" /\ ~debug
    /\ stages' = Append(stages, "load")
    /\ LET bad == Unequal(records)
           read == IF bad = {} THEN records ELSE SubSeq(records, 1, Min(bad))
           rows == [i \in 1..Len(records) |->
                       [c \in 1..Len(records[i]) |-> CsvCell(records[i][c])]]
       IN  /\ input' = read
           /\ data' = IF bad = {} THEN DataNew(headers, rows) ELSE data
           /\ ret' = IF bad = {} THEN ret
                     ELSE Err("failed to read row in CSV", Min(bad), NoneIdx, <<>>)
           /\ pc' = IF bad = {} /\ data'.state = "ok" THEN "fit" ELSE "done"
    /\ UNCHANGED <<expr, columns, eq, headers, target, tgt, params, deviates, nEval,
                   status, strVars, auxVars>>

\* the writers of lib.rs write what those of solve.rs write, to io::stdout()
run_output(x, out_fmt, no_stats) ==
    CASE out_fmt = "Table" -> write_table(x, ~no_stats, "UTF8_HORIZONTAL_ONLY")
      [] out_fmt = "Plain" -> write_table(x, ~no_stats, "NOTHING")
      [] out_fmt = "Csv" -> write_csv_table(x, ~no_stats)
      [] out_fmt = "Md" -> write_table(x, ~no_stats, "ASCII_MARKDOWN")
      [] out_fmt = "Json" -> write_json_table(x)

\* the match on the output format, lines 139-145 of run
Render(fmt, no_stats) ==
    /\ pc = "done" /\ ret.state = "ok" /\ ret.kind = "fit"
    /\ stages' = Append(stages, "render")
    /\ output' = [format |-> fmt, stats |-> ~no_stats]
    /\ stdout' = stdout \o run_output(ret.fit, fmt, no_stats)
    /\ pc' = "rendered"
    /\ UNCHANGED <<expr, columns, eq, headers, input, data, target, tgt, params,
                   deviates, nEval, status, ret, strVars, sol, similar, wtr, debug>>

NextRun ==
    \/ pc = "headers" /\ \E h \in CsvHeaders : ReadHeaders(h)
    \/ pc = "parse" /\ \E text \in Formulas : Parse(text, headers)
    \/ pc = "data" /\ \E t \in Targets, found \in Searches(headers) \cup {<<>>} :
                         OutputDebug(t, found)
    \/ pc = "data" /\ \E records \in SeqsUpTo(CsvRecords, MaxRows) : CsvLoad(records)
    \/ pc = "fit" /\ \E t \in Targets, found \in Searches(data.cols) \cup {<<>>} :
                        FitStart(t, found)
    \/ MpfitReject
    \/ pc = "mpfit" /\ \E p \in Trials(Len(params)) \cup {params} : FitterEvalStep(p)
    \/ pc = "mpfit" /\ \E s \in MPSuccess, x \in XErrors(Len(params)) : MpfitReturn(s, x)
    \/ Summarise
    \/ pc = "done" /\ \E fmt \in Outputs, no_stats \in BOOLEAN : Render(fmt, no_stats)

SpecRun == InitRun /\ [][NextRun]_vars

(***************************************************************************)
(* The run over CSV records whose target cell reads NaN or inf: the load   *)
(* makes Num cells of them, and the fit goes on to the optimizer.          *)
(***************************************************************************)
NonFiniteRecords ==
    { << <<"1">>, <<"1">> >>, << <<"3">>, <<"0">> >>,
      << <<"N", "a", "N">>, <<"1">> >>, << <<"-", "i", "n", "f">>, <<"2">> >> }

InitCsvFit == pc = "headers" /\ FitIdle /\ StrIdle /\ AuxIdle

NextCsvFit ==
    \/ pc = "headers" /\ \E h \in CsvHeaders : ReadHeaders(h)
    \/ pc = "parse" /\ \E text \in Formulas : Parse(text, headers)
    \/ pc = "data" /\ \E records \in SeqsUpTo(NonFiniteRecords, MaxRows) : CsvLoad(records)
    \/ pc = "fit" /\ \E t \in Targets, found \in {<<>>, <<0>>} : FitStart(t, found)
    \/ MpfitReject
    \/ pc = "mpfit" /\ \E p \in Trials(Len(params)) \cup {params} : FitterEvalStep(p)
    \/ pc = "mpfit" /\ \E s \in MPSuccess, x \in XErrors(Len(params)) : MpfitReturn(s, x)
    \/ Summarise

SpecCsvFit == InitCsvFit /\ [][NextCsvFit]_vars

(***************************************************************************)
(* fit over formulas of two variables: the data has the columns the        *)
(* formula was parsed against, or lacks one, or has them in another order. *)
(***************************************************************************)
TwoVarColumns == << <<"y">>, <<"x">>, <<"d">> >>

TwoVarFormulas ==
    { \* m * x + d
      <<Var(<<"m">>), Binary("*"), Var(<<"x">>), Binary("+"), Var(<<"d">>)>>,
      \* d * x
      <<Var(<<"d">>), Binary("*"), Var(<<"x">>)>>,
      \* 2 * x
      <<Number(Num(2)), Binary("*"), Var(<<"x">>)>>,
      \* m * d + c
      <<Var(<<"m">>), Binary("*"), Var(<<"d">>), Binary("+"), Var(<<"c">>)>> }

TwoVarHeaders ==
    { HeadersFromIter(<< <<"y">>, <<"x">>, <<"q">> >>),
      HeadersFromIter(<< <<"Y", " ">>, <<"d">>, <<"x">> >>) }

TwoVarRows ==
    { <<F64(1), F64(1), F64(1)>>, <<F64(3), Str(Bar), F64(2)>>,
      <<F64(2), F64(2), Str(Bar)>>, <<Str(Bar), Str(Bar), F64(1)>> }

NextTwoVar ==
    \/ pc = "parse" /\ \E text \in TwoVarFormulas : Parse(text, HeadersFromIter(TwoVarColumns))
    \/ pc = "data" /\ \E hdrs \in {columns} \cup TwoVarHeaders,
                         rows \in SeqsUpTo(TwoVarRows, MaxRows) : DataNewStep(hdrs, rows)
    \/ pc = "fit" /\ \E t \in Targets, found \in {<<>>, <<0>>} : FitStart(t, found)
    \/ MpfitReject
    \/ pc = "mpfit" /\ \E p \in Trials(Len(params)) \cup {params} : FitterEvalStep(p)
    \/ pc = "mpfit" /\ \E s \in MPSuccess, x \in XErrors(Len(params)) : MpfitReturn(s, x)
    \/ Summarise

SpecTwoVar == Init /\ [][NextTwoVar]_vars

\* Eq::solve on its own: a parsed formula, a parameter vector of
\* params_len() entries and one row
SolveCells == { F64(3), Str(Bar) }
SolveValues == { Num(2), Num(5) }

SolveOnce(ps, cells) ==
    /\ pc = "data"
    /\ params' = ps
    /\ input' = <<cells>>
    /\ sol' = solve(eq, ps, [idx |-> 0, vals |-> [c \in 1..Len(cells) |-> CellFrom(cells[c])]])
    /\ pc' = "solved"
    /\ UNCHANGED <<expr, columns, eq, headers, data, target, tgt, deviates, nEval,
                   status, ret, strVars, similar, wtr, stdout, output, debug, stages>>

NextSolve ==
    \/ pc = "parse" /\ \E text \in Chains(MaxSolveOperands) \cup Formulas, h \in ParseColumns :
                          Parse(text, HeadersFromIter(h))
    \/ pc = "data" /\ \E ps \in [1..params_len(eq) -> SolveValues],
                         cells \in SeqsUpTo(SolveCells, MaxHdrs) : SolveOnce(ps, cells)

SpecSolve == Init /\ [][NextSolve]_vars

(***************************************************************************)
(* Properties.                                                             *)
(***************************************************************************)
\* String::retain(|c| !c.is_whitespace())
RECURSIVE Retain(_)
Retain(s) ==
    IF s = <<>> THEN <<>>
    ELSE IF is_whitespace(Head(s)) THEN Retain(Tail(s))
    ELSE <<Head(s)>> \o Retain(Tail(s))

\* the whitespace-stripped strings are equal ignoring ASCII case
SameIgnoringCaseAndWs(a, b) ==
    LET x == Retain(a)
        y == Retain(b)
    IN  /\ Len(x) = Len(y)
        /\ \A i \in 1..Len(x) : to_ascii_lowercase(x[i]) = to_ascii_lowercase(y[i])

\* the 0-based index of the first header equal to name in that sense
ColOf(hdrs, name) ==
    LET m == {i \in 1..Len(hdrs) : SameIgnoringCaseAndWs(hdrs[i], name)}
    IN  IF m = {} THEN NoneIdx ELSE Min(m) - 1

RECURSIVE FirstOccurrences(_)
FirstOccurrences(s) ==
    IF s = <<>> THEN <<>>
    ELSE LET init == SubSeq(s, 1, Len(s) - 1)
             last == s[Len(s)]
         IN  IF \E i \in 1..Len(init) : init[i] = last
             THEN FirstOccurrences(init)
             ELSE Append(FirstOccurrences(init), last)

\* the identifiers of the formula text that are no function names, in reading order
RECURSIVE TextIdents(_)
TextIdents(text) ==
    IF text = <<>> THEN <<>>
    ELSE IF Head(text).t = "Var" THEN <<Head(text).n>> \o TextIdents(Tail(text))
    ELSE TextIdents(Tail(text))

Occurrences(s, x) == Cardinality({i \in 1..Len(s) : s[i] = x})

\* C1: for every formula Eq::parse accepts, params() and vars() share no
\* identifier and each non-function identifier of the formula appears
\* exactly once in params() or vars()
C1_DistinctParamsAndVars ==
    eq.state = "ok" =>
        LET ps == ParamsOf(eq)
            vs == VarsOf(eq)
            ids == TextIdents(expr)
        IN  /\ \A i \in 1..Len(ps), j \in 1..Len(vs) : ps[i] # vs[j]
            /\ \A k \in 1..Len(ids) :
                  Occurrences(ps, ids[k]) + Occurrences(vs, ids[k]) = 1

\* C6: params() is the list of the free parameters (the identifiers of the
\* text that match no column), each once, in the order of their first
\* occurrence in the text
C6_ParamsFirstOccurrenceOrder ==
    eq.state = "ok" =>
        ParamsOf(eq) =
            FirstOccurrences(SelectSeq(TextIdents(expr),
                LAMBDA n : ~ctx_get_var(n) /\ ColOf(columns, n) = NoneIdx))

\* C9: find_ignore_case_and_ws returns the index of the first header that
\* equals the string once whitespace is removed and ASCII case ignored, None
\* when there is none; str_eq_ignore_case_and_ws holds exactly for such pairs
C9_FindIgnoreCaseAndWs ==
    qPc = "done" =>
        /\ \A i \in 1..Len(qHdrs) :
              str_eq_ignore_case_and_ws(qHdrs[i], qStr)
                  <=> SameIgnoringCaseAndWs(qHdrs[i], qStr)
        /\ qRes = ColOf(qHdrs, qStr)

\* header `a B` is found by `A<tab>b`, ahead of the later header `Ab`
C9_Witness ==
    /\ qPc = "done"
    /\ qHdrs = << <<"a", " ", "B">>, <<"A", "b">> >>
    /\ qStr = <<"A", "\t", "b">>
    /\ qRes = 0

\* C10: Data::new builds a Data only if every row is as long as the
\* headers; otherwise it fails with the index of the first row that is not,
\* and builds nothing
C10_DataNewRowLengths ==
    data.state # "none" =>
        LET bad == {i \in 1..Len(input) : Len(input[i]) # Len(headers)}
        IN  IF bad = {}
            THEN /\ data.state = "ok"
                 /\ data.cols = headers
                 /\ Len(data.rows) = Len(input)
                 /\ \A i \in 1..Len(data.rows) : Len(data.rows[i]) = Len(headers)
            ELSE /\ data.state = "err"
                 /\ data.rows = <<>>
                 /\ data.row + 1 \in bad
                 /\ \A i \in bad : data.row + 1 <= i
                 /\ pc = "done" /\ ret = NoRet

\* the second row is the first of two rows of the wrong length
C10_Witness ==
    /\ data.state = "err"
    /\ data.row = 1
    /\ Len(input) = 4
    /\ Len(input[4]) # Len(headers)

\* fit has been called on the parsed formula and the built data
FitCalled == data.state = "ok" /\ pc \notin {"parse", "data", "fit"}

\* every cell of the column is a number
NumericColumn(c) == \A r \in 1..Len(data.rows) : data.rows[r][c + 1].t = "Num"

\* the columns the fit reads: the target's and each variable's, by name
ReferencedNames == {target} \cup {eq.vars[j][1] : j \in 1..Len(eq.vars)}

ReferencedColumns == {ColOf(data.cols, nm) : nm \in ReferencedNames} \ {NoneIdx}

AllNamesResolve == \A nm \in ReferencedNames : ColOf(data.cols, nm) # NoneIdx

ZeroParameters == "equation has 0 parameters to fit"

NotANumber == "failed to parse as number"

OptimizerNeverRan == nEval = 0 /\ status = NoStatus /\ deviates = <<>>

\* C2 as stated: fit on a formula without free parameters returns the
\* zero-parameters error carrying the formula text, the optimizer never run
C2_ZeroParametersError ==
    (FitCalled /\ params_len(eq) = 0) =>
        /\ ret.state = "err"
        /\ ret.kind = ZeroParameters
        /\ ret.estr = expr
        /\ OptimizerNeverRan

\* C2 amended: fit on a formula without free parameters always fails before
\* the optimizer runs; the failure is the zero-parameters error carrying the
\* formula text whenever the target and every variable name a column of the
\* data and those columns hold numbers only, and otherwise it is the error of
\* the column lookup or of the cell that is not a number
C2_ZeroParametersNeverFit ==
    (FitCalled /\ params_len(eq) = 0) =>
        /\ pc = "done"
        /\ ret.state = "err"
        /\ OptimizerNeverRan
        /\ IF AllNamesResolve /\ \A c \in ReferencedColumns : NumericColumn(c)
           THEN ret.kind = ZeroParameters /\ ret.estr = expr
           ELSE ret.kind \in {"could not find column", NotANumber}

\* `2 * x` over rows of numbers, target found
C2_Witness ==
    /\ FitCalled
    /\ params_len(eq) = 0
    /\ Len(data.rows) >= 2
    /\ ret.kind = ZeroParameters
    /\ ret.estr = expr

\* the error names a Text cell, the first of a column the fit reads
NamesTextCell ==
    /\ ret.state = "err"
    /\ ret.kind = NotANumber
    /\ ret.col \in ReferencedColumns
    /\ ret.row \in 1..Len(data.rows)
    /\ data.rows[ret.row][ret.col + 1].t = "Txt"
    /\ \A r \in 1..(ret.row - 1) : data.rows[r][ret.col + 1].t = "Num"

TextInReferencedColumn == \E c \in ReferencedColumns : ~NumericColumn(c)

C4_DegenerateStatisticsError ==
    (FitCalled /\ pc = "done" /\ DataLen(data) <= params_len(eq) + 1) =>
        /\ ret.state # "ok"
        /\ status.res = "ok" => ret.kind = "degenerate statistics"

\* C5: a Fit is returned only when the optimizer converged and every row
\* evaluated
C5_FitOnlyWhenConverged ==
    ret.state = "ok" =>
        /\ status.res = "ok"
        /\ status.success # "MaxIter"
        /\ \A i \in 1..Len(data.rows) :
              solve(eq, ret.fit.parameter_values, DataRows(data)[i]).some

\* C7: fitting `m * x + c` with target y over the headers (y, x) returns
\* the parameter names c, m in that order
C7_ExampleParameterNames ==
    ( /\ ret.state = "ok"
      /\ expr = <<Var(<<"m">>), Binary("*"), Var(<<"x">>), Binary("+"), Var(<<"c">>)>>
      /\ data.cols = << <<"y">>, <<"x">> >>
      /\ target = <<"y">> )
    => ret.fit.parameter_names = << <<"c">>, <<"m">> >>

\* C8: in a returned Fit parameter_names is params(), the values, errors
\* and t-values are as many as the names, each t-value is its value divided
\* by its error, and n is the number of data rows
C8_FitShape ==
    ret.state = "ok" =>
        LET f == ret.fit
            k == Len(f.parameter_names)
        IN  /\ f.parameter_names = ParamsOf(eq)
            /\ Len(f.parameter_values) = k
            /\ Len(f.xerrs) = k
            /\ Len(f.tvals) = k
            /\ \A i \in 1..k : f.tvals[i] = FDiv(f.parameter_values[i], f.xerrs[i])
            /\ f.n = Len(input)

\* two parameters with different finite t-values over four rows
C8_Witness ==
    /\ ret.state = "ok"
    /\ Len(ret.fit.parameter_names) = 2
    /\ ret.fit.n = 4
    /\ is_finite(ret.fit.tvals[1])
    /\ is_finite(ret.fit.tvals[2])
    /\ ret.fit.tvals[1] # ret.fit.tvals[2]

\* the position (from 1) of the first row with a Text cell in column c
FirstTextRow(c) ==
    Min({r \in 1..Len(data.rows) : data.rows[r][c + 1].t = "Txt"})

\* C11: the index Data::new reports for a row of the wrong length and the
\* index DataRow::get_num reports for a cell that is not a number give the
\* same number to the same row: the row that get_num has named, given to
\* Data::new with a cell missing, is reported under the same index
C11_RowIndexConvention ==
    (FitCalled /\ ret.state = "err" /\ ret.kind = NotANumber) =>
        LET p == FirstTextRow(ret.col)
            ragged == [input EXCEPT ![p] = Tail(input[p])]
        IN  DataNew(headers, ragged).row = ret.row

\* the cells of the row handed to Eq::solve
SolveRow == [c \in 1..Len(input[1]) |-> CellFrom(input[1][c])]

\* the values the substitution gives to a name: params[i] where the name is
\* the i-th entry of params(), the cell at the bound column index where it
\* is the j-th entry of vars()
ValuesOf(n) ==
    {params[i] : i \in {i \in 1..Len(ParamsOf(eq)) : ParamsOf(eq)[i] = n}}
    \cup {SolveRow[eq.vars[j][2] + 1].x : j \in {j \in 1..Len(eq.vars) : eq.vars[j][1] = n}}

\* the formula with every identifier replaced by the number sigma gives it
Substitute(rpn, sigma) ==
    [k \in 1..Len(rpn) |-> IF rpn[k].t = "Var" THEN Number(sigma[rpn[k].n]) ELSE rpn[k]]

BoundCells == {eq.vars[j][2] + 1 : j \in 1..Len(eq.vars)}

\* C12: Eq::solve(params, row) is the value of the formula with params[i]
\* in place of the i-th entry of params() and the row's cell at the bound
\* column index in place of the j-th entry of vars(); it is None whenever a
\* bound column's cell of the row is Text
C12_SolveSubstitutes ==
    pc = "solved" =>
        /\ (\E c \in BoundCells : c <= Len(SolveRow) /\ SolveRow[c].t = "Txt")
              => sol = None64
        /\ (\A c \in BoundCells : c <= Len(SolveRow) /\ SolveRow[c].t = "Num") =>
              LET names == {eq.expr[k].n : k \in {k \in 1..Len(eq.expr) : eq.expr[k].t = "Var"}}
                  values == UNION {ValuesOf(n) : n \in names}
              IN  \A sigma \in [names -> values] :
                      (\A n \in names : sigma[n] \in ValuesOf(n)) =>
                          sol = Some64(EvalRpn(Substitute(eq.expr, sigma), <<>>, <<>>, <<>>))

\* the names the formula text uses as function calls, and as identifiers
CalledNames(text) == {text[k].n : k \in {k \in 1..Len(text) : text[k].t = "Func"}}

IdentNames(text) == {text[k].n : k \in {k \in 1..Len(text) : text[k].t = "Var"}}

\* C13: a name the formula uses as a function call only is in neither
\* params() nor vars(), whatever the headers; when every identifier of the
\* formula besides the function names is a column name, params_len() = 0
C13_FunctionNamesNotClassified ==
    eq.state = "ok" =>
        /\ \A f \in CalledNames(expr) \ IdentNames(expr) :
              /\ \A i \in 1..Len(ParamsOf(eq)) : ParamsOf(eq)[i] # f
              /\ \A j \in 1..Len(VarsOf(eq)) : VarsOf(eq)[j] # f
        /\ (\A n \in IdentNames(expr) : ColOf(columns, n) # NoneIdx) => params_len(eq) = 0

\* abs(x) over the headers (abs, x, Log): abs is a function call and names
\* a header too, and x is the only identifier
C13_Witness ==
    /\ eq.state = "ok"
    /\ expr = <<Func(<<"a","b","s">>), Var(<<"x">>), RParen>>
    /\ ColOf(columns, <<"a","b","s">>) # NoneIdx
    /\ VarsOf(eq) = << <<"x">> >>
    /\ params_len(eq) = 0

\* C14: whenever fit fails because the target names no header, the error
\* carries the help of match_hdr_help: the headers the fuzzy search found,
\* without their whitespace, when it found any, and the fixed hint
\* otherwise; the help is never empty
C14_TargetNotFoundHelp ==
    (FitCalled /\ ColOf(data.cols, target) = NoneIdx) =>
        /\ ret.state = "err"
        /\ ret.kind = "could not find column"
        /\ ret.estr = target
        /\ ret.help # NoHelp
        /\ ret.help.head # ""
        /\ IF similar = <<>>
           THEN ret.help = [head |-> NoColumnsMatch, pushed |-> <<>>]
           ELSE /\ ret.help.head = SimilarHeaders
                /\ ret.help.pushed =
                      PushAll([k \in 1..Len(similar) |-> Retain(data.cols[similar[k] + 1])])

\* the search finds both headers of (d, ` Y`), the second one first
C14_Witness ==
    /\ FitCalled
    /\ ColOf(data.cols, target) = NoneIdx
    /\ similar = <<1, 0>>
    /\ ret.help.pushed = <<" ", "Y", " ", "d">>

\* the search finds nothing
C14_WitnessNoMatch ==
    /\ FitCalled
    /\ ColOf(data.cols, target) = NoneIdx
    /\ similar = <<>>
    /\ ret.help.head = NoColumnsMatch

\* C15: for every output format write_results writes what it renders to
\* the writer it is given, and nothing to any other stream
C15_WritesToGivenWriter ==
    pc = "written" =>
        /\ stdout = <<>>
        /\ wtr # <<>>
        /\ wtr[1].piece = (IF output.format = "Json" THEN "json" ELSE "header")

\* solve on the first data row is finite for the vector whose entry i is v[i]
FiniteOnFirstRow(v) ==
    LET s == solve(eq, v, [idx |-> 0, vals |-> data.rows[1]])
    IN  s.some /\ is_finite(s.x)

\* fit has got as far as its starting parameter vector
StartingVectorChosen ==
    FitCalled /\ nEval = 0 /\ (pc = "mpfit" \/ ret.kind = ZeroParameters)

\* C16: the starting parameter vector is the first of all-zeros, all-ones,
\* all-0.5 and (0, 1, 2, ...) for which solve on the first data row is
\* finite; it is all-0.1 when none is or when there is no first row
C16_StartingVector ==
    StartingVectorChosen =>
        LET K == 1..params_len(eq)
            zeros == [i \in K |-> Num(0)]
            ones == [i \in K |-> Num(1)]
            halves == [i \in K |-> Rat(1, 2)]
            indices == [i \in K |-> Num(i - 1)]
            tenths == [i \in K |-> Rat(1, 10)]
        IN  params =
              IF Len(data.rows) = 0 THEN tenths
              ELSE IF FiniteOnFirstRow(zeros) THEN zeros
              ELSE IF FiniteOnFirstRow(ones) THEN ones
              ELSE IF FiniteOnFirstRow(halves) THEN halves
              ELSE IF FiniteOnFirstRow(indices) THEN indices
              ELSE tenths

\* x / (a - b): only the last probe (0, 1) is finite on the first row, and a
\* later row differs from the first
C16_Witness ==
    /\ StartingVectorChosen
    /\ params = <<Num(0), Num(1)>>
    /\ Len(data.rows) >= 2
    /\ data.rows[2] # data.rows[1]

\* the other outcomes: all-ones, all-0.5, and all-0.1 with and without rows
C16_WitnessOnes == StartingVectorChosen /\ params = <<Num(1)>>

C16_WitnessHalves == StartingVectorChosen /\ params = <<Rat(1, 2), Rat(1, 2)>>

C16_WitnessDefault ==
    StartingVectorChosen /\ params = <<Rat(1, 10)>> /\ Len(data.rows) > 0

C16_WitnessNoRows ==
    StartingVectorChosen /\ params = <<Rat(1, 10), Rat(1, 10)>> /\ Len(data.rows) = 0

\* the last Fitter::eval has written the residuals of the vector in params
ResidualsWritten == FitCalled /\ nEval >= 1 /\ status.success # "Eval" /\ ret.state # "panic"

\* C17: Fitter::eval gives a row for which solve is not finite the residual
\* 1e13, whatever its target value, and every other row the residual
\* target - solve(params, row)
C17_SentinelResidual ==
    ResidualsWritten =>
        /\ Len(deviates) = Len(data.rows)
        /\ \A i \in 1..Len(data.rows) :
              LET f == solve(eq, params, [idx |-> i - 1, vals |-> data.rows[i]])
                  y == data.rows[i][tgt + 1].x
              IN  /\ f.some
                  /\ deviates[i] = IF is_finite(f.x) THEN FSub(y, f.x)
                                   ELSE <<1, 1, 1, 13>>

\* one row is not finite and gets 1e13, another gets a residual that is not 0
C17_Witness ==
    /\ ResidualsWritten
    /\ \E i, j \in 1..Len(data.rows) :
          /\ ~is_finite(solve(eq, params, [idx |-> i - 1, vals |-> data.rows[i]]).x)
          /\ deviates[i] = <<1, 1, 1, 13>>
          /\ is_finite(deviates[j])
          /\ deviates[j] \notin {Num(0), <<1, 1, 1, 13>>}

\* the stages of `run` in the order of its code
RunStages == <<"headers", "parse", "load", "fit", "render">>
DebugStages == <<"headers", "parse", "debug">>
IsPrefix(s, t) == Len(s) <= Len(t) /\ SubSeq(t, 1, Len(s)) = s
Performed(stage) == \E k \in 1..Len(stages) : stages[k] = stage
\* the run has returned an error (or panicked) from the stage it was in
RunFailed == pc = "done" /\ (eq.state = "err" \/ data.state = "err" \/ ret.state \in {"err", "panic"})

\* C18: the run performs its stages in the order read headers, parse formula,
\* load data rows, fit, render: what has been performed is always a prefix of
\* that sequence, a stage that fails is the last one performed (a formula that
\* does not parse leaves the run with no data row read), the render happens
\* only after a fit that returned Ok; with --debug what has been performed is
\* a prefix of read headers, parse formula, print, with no data row ever
\* loaded and no fit attempted
C18_RunStageOrder ==
    /\ IsPrefix(stages, IF debug THEN DebugStages ELSE RunStages)
    /\ eq.state = "err" =>
          /\ stages = <<"headers", "parse">> /\ pc = "done"
          /\ input = <<>> /\ data = NoData /\ nEval = 0
    /\ (ret.kind = "headers row is empty") =>
          stages = <<"headers">> /\ pc = "done" /\ eq = NoEq /\ data = NoData
    /\ (data.state = "err" \/ ret.kind = "failed to read row in CSV") =>
          /\ stages = <<"headers", "parse", "load">> /\ pc = "done"
          /\ tgt = NoneIdx /\ nEval = 0 /\ status = NoStatus
    /\ (Performed("fit") /\ ret.state \in {"err", "panic"}) =>
          stages = <<"headers", "parse", "load", "fit">> /\ pc = "done" /\ stdout = <<>>
    /\ Performed("parse") => headers # <<>>
    /\ Performed("load") => eq.state = "ok"
    /\ Performed("fit") => data.state = "ok" /\ ret.kind # "failed to read row in CSV"
    /\ Performed("render") =>
          /\ stages = RunStages /\ pc = "rendered"
          /\ ret.state = "ok" /\ ret.kind = "fit" /\ stdout # <<>>
    /\ debug =>
          /\ ~Performed("load") /\ ~Performed("fit")
          /\ input = <<>> /\ data = NoData
          /\ tgt = NoneIdx /\ params = <<>> /\ nEval = 0 /\ status = NoStatus
          /\ ret.kind # "fit"

\* a run that went through all five stages, one stopped by a formula that does
\* not parse, and one stopped after parsing by --debug
C18_Witness ==
    /\ pc = "rendered" /\ ~debug /\ stages = RunStages
    /\ Len(input) >= 2 /\ nEval >= 1

C18_WitnessParseError ==
    /\ ~debug /\ eq.state = "err" /\ pc = "done" /\ stages = <<"headers", "parse">>

C18_WitnessDebug ==
    /\ debug /\ pc = "done" /\ stages = DebugStages /\ ret = Unit /\ stdout # <<>>

C18_WitnessBadRecord ==
    /\ ~debug /\ ret.kind = "failed to read row in CSV" /\ ret.row = 2

\* the column a name gets in the headers of the data, and the variables in
\* the order of vars()
TargetColumn == ColOf(data.cols, target)
VarColumn(j) == ColOf(data.cols, VarsOf(eq)[j])
TextVars == {j \in 1..Len(eq.vars) : VarColumn(j) # NoneIdx /\ ~NumericColumn(VarColumn(j))}
FailingVars == {j \in 1..Len(eq.vars) : VarColumn(j) = NoneIdx \/ ~NumericColumn(VarColumn(j))}

\* the error of the first Text cell of column c
TextCellError(c) ==
    /\ ret.state = "err" /\ ret.kind = NotANumber
    /\ ret.col = c /\ ret.row = FirstTextRow(c)
    /\ OptimizerNeverRan

ColumnNotFound(name) ==
    /\ ret.state = "err" /\ ret.kind = "could not find column" /\ ret.estr = name
    /\ OptimizerNeverRan

SummaryFailed == "failed to solve equation when summarising"

\* what is left of the order once the columns are in order: zero free
\* parameters, then the failure of the optimizer, then that of the summary
LateFailures ==
    IF params_len(eq) = 0
    THEN ret.state = "err" /\ ret.kind = ZeroParameters /\ OptimizerNeverRan
    ELSE /\ ret.state = "err" => ret.kind \in {FitFailed.kind, SummaryFailed}
         /\ ret.kind = FitFailed.kind => status.res = "err"
         /\ ret.kind = SummaryFailed => status.res = "ok" /\ nEval >= 1

\* C19 as stated: fit reports the first failure that applies in the order
\* target column not found, Text cell in the target column, Text cell in the
\* column of a variable (variables in vars() order, first row of the column),
\* zero free parameters, optimizer failure, summary failure
C19_FitErrorOrder ==
    FitCalled =>
        IF TargetColumn = NoneIdx THEN ColumnNotFound(target)
        ELSE IF ~NumericColumn(TargetColumn) THEN TextCellError(TargetColumn)
        ELSE IF TextVars # {} THEN TextCellError(VarColumn(Min(TextVars)))
        ELSE LateFailures

\* C19 amended: the order is target column not found, Text cell in the target
\* column, then for each variable in vars() order its column not found in
\* the headers of the data or the first Text cell of its column, then zero
\* free parameters, optimizer failure, summary failure
C19_FitErrorOrderWithLookup ==
    FitCalled =>
        IF TargetColumn = NoneIdx THEN ColumnNotFound(target)
        ELSE IF ~NumericColumn(TargetColumn) THEN TextCellError(TargetColumn)
        ELSE IF FailingVars # {}
        THEN LET j == Min(FailingVars)
             IN  IF VarColumn(j) = NoneIdx THEN ColumnNotFound(VarsOf(eq)[j])
                 ELSE TextCellError(VarColumn(j))
        ELSE LateFailures

\* `d * x`, zero parameters, over rows where the columns of both variables
\* hold a Text cell, that of x in a later row than that of d: the error is
\* the Text cell of d, the first variable
C19_Witness ==
    /\ FitCalled
    /\ params_len(eq) = 0
    /\ Len(eq.vars) = 2
    /\ TargetColumn # NoneIdx /\ NumericColumn(TargetColumn)
    /\ Cardinality(TextVars) = 2
    /\ FirstTextRow(VarColumn(2)) < FirstTextRow(VarColumn(1))
    /\ TextCellError(VarColumn(1))

\* a variable that names no column of the data comes before zero parameters
C19_WitnessLookup ==
    /\ FitCalled
    /\ params_len(eq) = 0
    /\ TargetColumn # NoneIdx /\ NumericColumn(TargetColumn)
    /\ TextVars = {}
    /\ Len(eq.vars) = 2
    /\ ColumnNotFound(<<"d">>)

\* the optimizer's failure is reached when nothing before it applies
C19_WitnessOptimizer ==
    /\ FitCalled
    /\ FailingVars = {} /\ params_len(eq) = 2
    /\ ret.kind = FitFailed.kind

\* fit has been called on a formula parsed against the headers of the data,
\* and ensure_float_values_in_data has passed
ValidatedOnOwnHeaders ==
    /\ FitCalled /\ eq.state = "ok"
    /\ columns = data.cols
    /\ tgt # NoneIdx
    /\ ensure_float_values_in_data(eq, data, tgt).state = "ok"

\* parameter vectors of length params_len(): those the optimizer is given
\* here, the probes of guess_params, the default, the current one
VectorsOfParamsLen ==
    LET k == params_len(eq)
    IN  Trials(k) \cup {GuessCandidates(k)[c] : c \in 1..4} \cup {DefaultParams(eq)}
        \cup (IF Len(params) = k THEN {params} ELSE {})

\* C20: when the formula was parsed against the data's own headers and
\* ensure_float_values_in_data has passed, Eq::solve returns Some on every
\* row for every parameter vector of length params_len(), the columns it
\* reads are among those validated, Fitter::eval does not return the Eval
\* error, the summary does not fail and the target column's expects do not
\* panic
C20_SolveAfterValidation ==
    ValidatedOnOwnHeaders =>
        /\ \A r \in 1..Len(data.rows), ps \in VectorsOfParamsLen :
              solve(eq, ps, DataRows(data)[r]).some
        /\ \A j \in 1..Len(eq.vars) :
              eq.vars[j][2] = ColOf(data.cols, eq.vars[j][1]) /\ NumericColumn(eq.vars[j][2])
        /\ \A ps \in VectorsOfParamsLen : FitterEval(eq, data, tgt, ps).res = "ok"
        /\ status.success # "Eval"
        /\ ret.kind # SummaryFailed
        /\ ret.state # "panic"

\* a fit over two rows and more, on a formula of two variables parsed against
\* the data's headers, went through the optimizer and the summary
C20_Witness ==
    /\ ValidatedOnOwnHeaders
    /\ Len(eq.vars) = 2 /\ params_len(eq) = 1
    /\ Len(data.rows) >= 2
    /\ nEval >= 1
    /\ ret.state = "ok" /\ ret.kind = "fit"

\* on data whose headers are in another order than those the formula was
\* parsed against, validation passes and solve returns None all the same
C20_OtherHeadersEval ==
    /\ FitCalled /\ columns # data.cols
    /\ tgt # NoneIdx /\ ensure_float_values_in_data(eq, data, tgt).state = "ok"
    /\ status.success = "Eval"

\* the same with a Text cell in a column the formula does not read
C20_WitnessTextElsewhere ==
    /\ ValidatedOnOwnHeaders
    /\ \E r \in 1..Len(data.rows), c \in 1..Len(data.cols) : data.rows[r][c].t = "Txt"
    /\ nEval >= 1
    /\ ret.state = "ok" /\ ret.kind = "fit"

\* C21: every residual Fitter::eval hands to the optimizer is a finite
\* number, for every data that passed the check of its cells and every
\* parameter vector, a target cell that is a NaN or infinite Num included
C21_ResidualsFinite ==
    ResidualsWritten => \A i \in 1..Len(deviates) : is_finite(deviates[i])

====
